---- MODULE Spec2Model ----
(***************************************************************************)
(* Model of src/game.py: the MarketSimulator class (linear demand/supply   *)
(* under a per-unit tax, closed-form equilibrium, welfare accounting) and  *)
(* the callback wiring of create_interactive_game (tax slider, two         *)
(* elasticity sliders, reset button).                                      *)
(*                                                                         *)
(* Numbers are exact rationals <<n, d>> in lowest terms with d > 0, so     *)
(* the arithmetic is that of the reals; binary floating-point rounding of  *)
(* the Python floats is not modelled.                                      *)
(*                                                                         *)
(* A value computed once and used several times is bound to its name with  *)
(* The({ ... : name \in {value} }), the counterpart of a local variable.   *)
(* Record constructors list their fields in the order in which the field   *)
(* names first occur in this module, the order TLC keeps records in.       *)
(***************************************************************************)
EXTENDS Integers, Sequences, FiniteSets, TLC

VARIABLES sim, tax_slider, demand_elasticity_slider, supply_elasticity_slider,
          consumer_price, quantity, welfare_data, event, call

vars == <<sim, tax_slider, demand_elasticity_slider, supply_elasticity_slider,
          consumer_price, quantity, welfare_data, event, call>>

(***************************************************************************)
(* Bounds of the model.                                                    *)
(***************************************************************************)
\* elasticity magnitudes range over 1..MaxElasticity (and their halves on
\* the sliders)
MaxElasticity == 3
\* slider tax rates range over 0..MaxSliderTax
MaxSliderTax == 3
\* tax rates assigned directly to the simulator reach 100 * MaxTaxHundreds
MaxTaxHundreds == 2

(***************************************************************************)
(* Exact arithmetic standing for Python's float operators.                 *)
(***************************************************************************)
\* the element of a one-element set
The(S) == CHOOSE v \in S : TRUE

Abs(n) == IF n < 0 THEN -n ELSE n

RECURSIVE GCD(_, _)
GCD(a, b) == IF b = 0 THEN a ELSE GCD(b, a % b)

\* p/q (q # 0) over the common divisor g, with a positive denominator
Lowest(p, q, g) ==
    IF q < 0 THEN <<(0 - p) \div g, (0 - q) \div g>> ELSE <<p \div g, q \div g>>

\* the rational n/d (d # 0) in lowest terms with a positive denominator
Rat(n, d) ==
    The({The({Lowest(p, q, g) : g \in {GCD(Abs(p), Abs(q))}}) : p \in {n}, q \in {d}})

Num(n) == <<n, 1>>
Zero == Num(0)
Half == Rat(1, 2)

Add(a, b) == The({Rat(x[1] * y[2] + y[1] * x[2], x[2] * y[2]) : x \in {a}, y \in {b}})
Sub(a, b) == The({Rat(x[1] * y[2] - y[1] * x[2], x[2] * y[2]) : x \in {a}, y \in {b}})
Mul(a, b) == The({Rat(x[1] * y[1], x[2] * y[2]) : x \in {a}, y \in {b}})
\* a / b, defined for b # 0; callers raise ZeroDivisionError otherwise
Div(a, b) == The({Rat(x[1] * y[2], x[2] * y[1]) : x \in {a}, y \in {b}})
Less(a, b) == The({x[1] * y[2] < y[1] * x[2] : x \in {a}, y \in {b}})
Leq(a, b) == The({x[1] * y[2] <= y[1] * x[2] : x \in {a}, y \in {b}})
\* Python's max(0, x)
MaxZero(x) == The({IF Less(Zero, v) THEN v ELSE Zero : v \in {x}})

\* the value of a call that raised, or of a call not made
None == <<>>

(***************************************************************************)
(* class MarketSimulator                                                   *)
(***************************************************************************)
\* the fields __init__ assigns before update_curves; the intercepts and the
\* equilibrium do not exist yet (None)
NewFields(d, s) ==
    [base_demand |-> Num(100), base_supply |-> Num(100),
     demand_elasticity |-> d, supply_elasticity |-> s,
     tax_rate |-> Zero, history |-> <<>>,
     demand_intercept |-> None, supply_intercept |-> None,
     equilibrium_price |-> None, equilibrium_quantity |-> None]

\* the anchor point every curve is made to pass through
AnchorPrice == Num(10)
AnchorQuantity == Num(100)

\* mutant: the anchor quantity added where it is subtracted
InterceptWrongSign(elasticity) == Add(AnchorPrice, Div(AnchorQuantity, elasticity))

\* 10 - 100 / elasticity, for elasticity # 0
Intercept(elasticity) == Sub(AnchorPrice, Div(AnchorQuantity, elasticity))

demand_function(s, price) ==
    Mul(s.demand_elasticity, Sub(price, s.demand_intercept))

supply_function(s, price) ==
    Mul(s.supply_elasticity, Sub(price, s.supply_intercept))

\* mutant: the tax added to the producer price
ProducerPriceTaxAdded(price, tax_rate) == Add(price, tax_rate)

\* the price received by producers
ProducerPrice(price, tax_rate) == Sub(price, tax_rate)

taxed_supply_function(s, price) ==
    Mul(s.supply_elasticity,
        Sub(ProducerPrice(price, s.tax_rate), s.supply_intercept))

\* mutant: the quantity left unclamped
ClampQuantityMissing(q) == q

\* max(0, equilibrium_quantity)
ClampQuantity(q) == MaxZero(q)

\* mutant: the tax subtracted from the supply intercept
NumeratorTaxSubtracted(s) ==
    Sub(Mul(s.supply_elasticity, Sub(s.supply_intercept, s.tax_rate)),
        Mul(s.demand_elasticity, s.demand_intercept))

\* the numerator of the analytical solution
Numerator(s) ==
    Sub(Mul(s.supply_elasticity, Add(s.tax_rate, s.supply_intercept)),
        Mul(s.demand_elasticity, s.demand_intercept))

\* the simulator with the equilibrium stored, and the pair returned
Stored(s, price, q) ==
    [sim |-> [s EXCEPT !.equilibrium_price = price, !.equilibrium_quantity = q],
     ret |-> <<price, q>>, raised |-> FALSE]

\* find_equilibrium: the closed-form solution; raises ZeroDivisionError,
\* before any assignment, when the elasticities are equal
find_equilibrium(self) ==
    The({IF Sub(s.supply_elasticity, s.demand_elasticity) = Zero
         THEN [sim |-> s, ret |-> None, raised |-> TRUE]
         ELSE The({The({Stored(s, price, q)
                        : q \in {ClampQuantity(demand_function(s, price))}})
                   : price \in {Div(Numerator(s),
                                    Sub(s.supply_elasticity, s.demand_elasticity))}})
         : s \in {self}})

\* update_curves: both intercepts from the anchor, then find_equilibrium;
\* a zero elasticity raises at its own division, later lines not run
update_curves(self) ==
    The({IF s.demand_elasticity = Zero
         THEN [sim |-> s, ret |-> None, raised |-> TRUE]
         ELSE IF s.supply_elasticity = Zero
         THEN [sim |-> [s EXCEPT !.demand_intercept = Intercept(s.demand_elasticity)],
               ret |-> None, raised |-> TRUE]
         ELSE The({[sim |-> r.sim, ret |-> None, raised |-> r.raised]
                   : r \in {find_equilibrium(
                               [s EXCEPT !.demand_intercept = Intercept(s.demand_elasticity),
                                         !.supply_intercept = Intercept(s.supply_elasticity)])}})
         : s \in {self}})

\* MarketSimulator(demand_elasticity, supply_elasticity)
MarketSimulator(demand_elasticity, supply_elasticity) ==
    update_curves(NewFields(demand_elasticity, supply_elasticity))

\* mutant: the sum written where the product is meant
TaxRevenueSum(tax_rate, q) == Add(tax_rate, q)

\* tax_rate * quantity
TaxRevenue(tax_rate, q) == Mul(tax_rate, q)

\* 0.5 * height * quantity, the area of a surplus triangle
Surplus(height, q) == Mul(Mul(Half, height), q)

\* the five figures returned, from the three parts and the zero-tax total
Figures(consumer_surplus, producer_surplus, tax_revenue, zero_tax_total) ==
    The({<<consumer_surplus, producer_surplus, tax_revenue, total_welfare,
           MaxZero(Sub(zero_tax_total, total_welfare))>>
         : total_welfare \in {Add(Add(consumer_surplus, producer_surplus), tax_revenue)}})

\* calculate_welfare: the five figures from the stored equilibrium, the
\* deadweight loss against a zero-tax equilibrium solved on the simulator
\* itself; only tax_rate is put back afterwards.  If the inner
\* find_equilibrium raises, tax_rate is left at 0.
calculate_welfare(self) ==
    The({The({IF r.raised
              THEN [sim |-> r.sim, ret |-> None, raised |-> TRUE]
              ELSE [sim |-> [r.sim EXCEPT !.tax_rate = s.tax_rate],
                    ret |-> Figures(
                        Surplus(Sub(s.demand_intercept, s.equilibrium_price),
                                s.equilibrium_quantity),
                        Surplus(Sub(Sub(s.equilibrium_price, s.tax_rate),
                                    s.supply_intercept),
                                s.equilibrium_quantity),
                        TaxRevenue(s.tax_rate, s.equilibrium_quantity),
                        Add(Surplus(Sub(s.demand_intercept, r.ret[1]), r.ret[2]),
                            Surplus(Sub(r.ret[1], s.supply_intercept), r.ret[2]))),
                    raised |-> FALSE]
              : r \in {find_equilibrium([s EXCEPT !.tax_rate = Zero])}})
         : s \in {self}})

\* mutant: the supply elasticity is not copied from its slider
update_elasticity_demand_only(s, demand_val, supply_val) ==
    update_curves([s EXCEPT !.demand_elasticity = demand_val])

\* update_elasticity with the two slider values: both elasticities assigned,
\* then update_curves
update_elasticity(s, demand_val, supply_val) ==
    update_curves([s EXCEPT !.demand_elasticity = demand_val,
                            !.supply_elasticity = supply_val])

\* the stored equilibrium is the one find_equilibrium gives for the fields
Solved(self) ==
    The({The({~r.raised /\ r.sim = s : r \in {find_equilibrium(s)}}) : s \in {self}})

\* the simulator part of update(val): tax_rate assigned, find_equilibrium,
\* then calculate_welfare; on_solved: calculate_welfare was entered with a
\* solved equilibrium
Recompute(self, tax_val) ==
    The({IF fe.raised
         THEN [sim |-> fe.sim, consumer_price |-> None, quantity |-> None,
               welfare_data |-> None, raised |-> TRUE, on_solved |-> TRUE]
         ELSE The({[sim |-> cw.sim, consumer_price |-> fe.ret[1],
                    quantity |-> fe.ret[2], welfare_data |-> cw.ret,
                    raised |-> cw.raised, on_solved |-> Solved(fe.sim)]
                   : cw \in {calculate_welfare(fe.sim)}})
         : fe \in {find_equilibrium([self EXCEPT !.tax_rate = tax_val])}})

(***************************************************************************)
(* create_interactive_game: the widgets' values, the three displayed       *)
(* variables and the callbacks.  A callback runs to its end before the     *)
(* next event is taken; g is the game's state as a record.                 *)
(***************************************************************************)
TaxValMax == 10
ElasticityValMax == 5
Min(a, b) == IF a < b THEN a ELSE b
Neg(a) == <<0 - a[1], a[2]>>

\* values a user can drag the sliders to (a part of the 0.1 grid)
TaxSliderValues == {Num(k) : k \in 0..Min(MaxSliderTax, TaxValMax)}
SupplySliderValues == {Rat(k, 2) : k \in 1..(2 * Min(MaxElasticity, ElasticityValMax))}
DemandSliderValues == {Neg(v) : v \in SupplySliderValues}

G ==
    [sim |-> sim, tax_slider |-> tax_slider,
     demand_elasticity_slider |-> demand_elasticity_slider,
     supply_elasticity_slider |-> supply_elasticity_slider,
     consumer_price |-> consumer_price, quantity |-> quantity,
     welfare_data |-> welfare_data, raised |-> FALSE, on_solved |-> TRUE]

\* the displayed variables assigned from a recomputation r; an exception
\* leaves them as they are
Displayed(g, r) ==
    IF r.raised
    THEN [g EXCEPT !.sim = r.sim, !.raised = TRUE]
    ELSE [g EXCEPT !.sim = r.sim,
                   !.consumer_price = r.consumer_price,
                   !.quantity = r.quantity,
                   !.welfare_data = r.welfare_data,
                   !.on_solved = g.on_solved /\ r.on_solved]

\* update(val)
update(game) ==
    The({Displayed(g, r) : g \in {game}, r \in {Recompute(game.sim, game.tax_slider)}})

\* update_elasticity_and_chart(val)
update_elasticity_and_chart(game) ==
    The({The({IF r.raised
              THEN [g EXCEPT !.sim = r.sim, !.raised = TRUE]
              ELSE update([g EXCEPT !.sim = r.sim])
              : r \in {update_elasticity(g.sim, g.demand_elasticity_slider,
                                         g.supply_elasticity_slider)}})
         : g \in {game}})

\* mutant: the demand slider put back to a wrong value
ResetValuesWrongDemand == [tax |-> Zero, demand |-> Num(-1), supply |-> Num(3)]

\* the values reset gives the three sliders
ResetValues == [tax |-> Zero, demand |-> Num(-3), supply |-> Num(3)]

\* Slider.set_val: the value is stored, then the slider's on_changed callback
\* runs
tax_slider_set_val(g, val) == update([g EXCEPT !.tax_slider = val])
demand_elasticity_slider_set_val(g, val) ==
    update_elasticity_and_chart([g EXCEPT !.demand_elasticity_slider = val])
supply_elasticity_slider_set_val(g, val) ==
    update_elasticity_and_chart([g EXCEPT !.supply_elasticity_slider = val])

\* consumer_price, quantity = sim.find_equilibrium();
\* welfare_data = sim.calculate_welfare()
Display(game) ==
    The({The({IF fe.raised
              THEN [g EXCEPT !.raised = TRUE]
              ELSE The({[g EXCEPT !.sim = cw.sim,
                                  !.consumer_price = fe.ret[1],
                                  !.quantity = fe.ret[2],
                                  !.welfare_data = cw.ret,
                                  !.raised = cw.raised,
                                  !.on_solved = g.on_solved /\ Solved(fe.sim)]
                        : cw \in {calculate_welfare(fe.sim)}})
              : fe \in {find_equilibrium(g.sim)}})
         : g \in {game}})

\* reset(event): a new simulator, the three sliders set one after another
\* (each set runs the slider's callback), the display recomputed, update(None);
\* an exception in a callback leaves reset at once
reset(game) ==
    The({The({The({The({IF g5.raised THEN g5 ELSE update(g5)
                        : g5 \in {IF g4.raised THEN g4 ELSE Display(g4)}})
                   : g4 \in {IF g3.raised THEN g3
                             ELSE supply_elasticity_slider_set_val(g3, ResetValues.supply)}})
              : g3 \in {IF g2.raised THEN g2
                        ELSE demand_elasticity_slider_set_val(g2, ResetValues.demand)}})
         : g2 \in {tax_slider_set_val(
                      [game EXCEPT !.sim = MarketSimulator(Num(-3), Num(3)).sim],
                      ResetValues.tax)}})

\* the state right after the simulator and the sliders are created
Created(s) ==
    [sim |-> s, tax_slider |-> s.tax_rate,
     demand_elasticity_slider |-> s.demand_elasticity,
     supply_elasticity_slider |-> s.supply_elasticity,
     consumer_price |-> None, quantity |-> None,
     welfare_data |-> None, raised |-> FALSE, on_solved |-> TRUE]

\* create_interactive_game up to plt.show(): the simulator, the sliders at
\* the simulator's values, the first display and the initial update(None)
Started ==
    The({update(Display(Created(s))) : s \in {MarketSimulator(Num(-3), Num(3)).sim}})

\* the event just handled, with the slider values it found; on_solved: every
\* calculate_welfare of the event was entered with a solved equilibrium
Event(name, g) ==
    [raised |-> g.raised, on_solved |-> g.on_solved,
     name |-> name, prev_tax |-> tax_slider,
     prev_demand |-> demand_elasticity_slider,
     prev_supply |-> supply_elasticity_slider]

\* the state a callback leaves becomes the state of the game
Show(name, game) ==
    \E g \in {game} :
        /\ sim' = g.sim
        /\ tax_slider' = g.tax_slider
        /\ demand_elasticity_slider' = g.demand_elasticity_slider
        /\ supply_elasticity_slider' = g.supply_elasticity_slider
        /\ consumer_price' = g.consumer_price
        /\ quantity' = g.quantity
        /\ welfare_data' = g.welfare_data
        /\ event' = Event(name, g)
        /\ UNCHANGED call

\* the user drags the tax slider to another value
TaxSliderChanged(val) ==
    /\ val # tax_slider
    /\ Show("tax", tax_slider_set_val(G, val))

\* the user drags the demand-elasticity slider to another value
DemandSliderChanged(val) ==
    /\ val # demand_elasticity_slider
    /\ Show("demand_elasticity", demand_elasticity_slider_set_val(G, val))

\* the user drags the supply-elasticity slider to another value
SupplySliderChanged(val) ==
    /\ val # supply_elasticity_slider
    /\ Show("supply_elasticity", supply_elasticity_slider_set_val(G, val))

\* the user clicks Reset Market
ResetClicked == Show("reset", reset(G))

\* the record of the latest call of a client; none in the game
NoCall ==
    [ret |-> None, raised |-> FALSE, op |-> "new", valid_args |-> TRUE,
     prev_op |-> "", prev_ret |-> None, prev_solved |-> FALSE]

Init ==
    \E g \in {Started} :
        /\ sim = g.sim
        /\ tax_slider = g.tax_slider
        /\ demand_elasticity_slider = g.demand_elasticity_slider
        /\ supply_elasticity_slider = g.supply_elasticity_slider
        /\ consumer_price = g.consumer_price
        /\ quantity = g.quantity
        /\ welfare_data = g.welfare_data
        /\ event = [raised |-> g.raised, on_solved |-> g.on_solved,
                    name |-> "start", prev_tax |-> g.tax_slider,
                    prev_demand |-> g.demand_elasticity_slider,
                    prev_supply |-> g.supply_elasticity_slider]
        /\ call = NoCall

Next ==
    \/ \E val \in TaxSliderValues : TaxSliderChanged(val)
    \/ \E val \in DemandSliderValues : DemandSliderChanged(val)
    \/ \E val \in SupplySliderValues : SupplySliderChanged(val)
    \/ ResetClicked

Spec == Init /\ [][Next]_vars

(***************************************************************************)
(* A client of the class: the class's operations in any order, the         *)
(* arguments drawn from bounded sets that include invalid elasticities.    *)
(***************************************************************************)
\* elasticities a client may pass: the valid ones, zero, and one value of the
\* wrong sign (which also gives equal elasticities)
ClientDemandElasticities == {Num(k) : k \in (0 - MaxElasticity)..1}
ClientSupplyElasticities == {Num(k) : k \in (0 - 1)..MaxElasticity}
\* tax rates a client may set: none, small, and large enough to empty the market
ClientTaxes == {Zero, Num(1)} \cup {Num(100 * k) : k \in 1..MaxTaxHundreds}

ValidElasticities(d, s) == Less(d, Zero) /\ Less(Zero, s)
Valid(s) == ValidElasticities(s.demand_elasticity, s.supply_elasticity)

\* the calls that end in find_equilibrium
Solves(op) ==
    op \in {"new", "MarketSimulator", "update_elasticity", "tax_rate", "find_equilibrium"}

\* the record of the latest call; valid_args: the elasticities passed, if any,
\* were valid.  The call before it is kept (prev_op, prev_ret, prev_solved)
\* only for calculate_welfare and for the recomputation of update, whose
\* results the properties compare with the preceding one; prev_solved: the
\* preceding call itself directly followed a call that ends in find_equilibrium
Called(op, valid_args, ret, raised) ==
    [ret |-> ret, raised |-> raised, op |-> op, valid_args |-> valid_args,
     prev_op |-> IF op \in {"calculate_welfare", "recompute"} THEN call.op ELSE "",
     prev_ret |-> IF op \in {"calculate_welfare", "recompute"} /\ call.op = op
                  THEN call.ret ELSE None,
     prev_solved |-> /\ op \in {"calculate_welfare", "recompute"}
                     /\ call.op = op
                     /\ Solves(call.prev_op)]

GuiUnchanged ==
    UNCHANGED <<tax_slider, demand_elasticity_slider, supply_elasticity_slider,
                consumer_price, quantity, welfare_data, event>>

\* The client goes on using a simulator only while its elasticities are valid
\* and its last call returned; after an invalid mutation or a
\* ZeroDivisionError its next call constructs a simulator anew.
Usable == Valid(sim) /\ ~call.raised

\* sim = MarketSimulator(d, s); the name keeps the old object when it raises
Construct(d, s) ==
    \E r \in {MarketSimulator(d, s)} :
        /\ sim' = IF r.raised THEN sim ELSE r.sim
        /\ call' = Called("MarketSimulator", ValidElasticities(d, s), r.ret, r.raised)
        /\ GuiUnchanged

\* sim.demand_elasticity = d; sim.supply_elasticity = s; sim.update_curves()
SetElasticities(d, s) ==
    \E r \in {update_elasticity(sim, d, s)} :
        /\ Usable
        /\ sim' = r.sim
        /\ call' = Called("update_elasticity", ValidElasticities(d, s), r.ret, r.raised)
        /\ GuiUnchanged

\* sim.tax_rate = t; sim.find_equilibrium(), as update(val) begins
SetTaxRate(t) ==
    \E r \in {find_equilibrium([sim EXCEPT !.tax_rate = t])} :
        /\ Usable
        /\ sim' = r.sim
        /\ call' = Called("tax_rate", TRUE, r.ret, r.raised)
        /\ GuiUnchanged

\* sim.find_equilibrium()
FindEquilibrium ==
    \E r \in {find_equilibrium(sim)} :
        /\ Usable
        /\ sim' = r.sim
        /\ call' = Called("find_equilibrium", TRUE, r.ret, r.raised)
        /\ GuiUnchanged

\* sim.calculate_welfare()
CalculateWelfare ==
    \E r \in {calculate_welfare(sim)} :
        /\ Usable
        /\ sim' = r.sim
        /\ call' = Called("calculate_welfare", TRUE, r.ret, r.raised)
        /\ GuiUnchanged

\* sim.tax_rate = t; sim.find_equilibrium(); sim.calculate_welfare(); the
\* result kept is <<tax_rate, quantity, deadweight_loss>>
ApplyTax(t) ==
    \E r \in {Recompute(sim, t)} :
        /\ Usable
        /\ sim' = r.sim
        /\ call' = Called("recompute", TRUE,
                          IF r.raised THEN None
                          ELSE <<t, r.quantity, r.welfare_data[5]>>,
                          r.raised)
        /\ GuiUnchanged

InitClient ==
    /\ sim = MarketSimulator(Num(-3), Num(3)).sim
    /\ call = NoCall
    /\ tax_slider = Zero
    /\ demand_elasticity_slider = Num(-3)
    /\ supply_elasticity_slider = Num(3)
    /\ consumer_price = None
    /\ quantity = None
    /\ welfare_data = None
    /\ event = None

NextClient ==
    \/ \E d \in ClientDemandElasticities, s \in ClientSupplyElasticities : Construct(d, s)
    \/ \E d \in ClientDemandElasticities, s \in ClientSupplyElasticities : SetElasticities(d, s)
    \/ \E t \in ClientTaxes : SetTaxRate(t)
    \/ FindEquilibrium
    \/ CalculateWelfare
    \/ \E t \in ClientTaxes : ApplyTax(t)

SpecClient == InitClient /\ [][NextClient]_vars

(***************************************************************************)
(* Properties.                                                             *)
(***************************************************************************)
\* the latest call of the client ended in find_equilibrium on valid parameters
JustSolved == Solves(call.op) /\ ~call.raised /\ Valid(sim)

\* the latest call of the client is calculate_welfare, made directly after a
\* call that ended in find_equilibrium
WelfareAfterSolve ==
    call.op = "calculate_welfare" /\ Solves(call.prev_op) /\ ~call.raised

\* C1 as stated: for every valid parameter set the pair find_equilibrium
\* returns and stores has quantity = demand_function(price) =
\* taxed_supply_function(price), the clamped case included.
C1_QuantityOnBothCurves ==
    JustSolved =>
        /\ sim.equilibrium_quantity = demand_function(sim, sim.equilibrium_price)
        /\ sim.equilibrium_quantity = taxed_supply_function(sim, sim.equilibrium_price)

\* C1 amended: for every valid parameter set the stored price satisfies
\* demand_function(price) = taxed_supply_function(price) and the stored
\* quantity is max(0, demand_function(price)): it lies on both curves exactly
\* when it is not clamped, and is 0 above a negative crossing otherwise.
C1_PriceOnBothCurvesQuantityClamped ==
    JustSolved =>
        LET p == sim.equilibrium_price
            q == sim.equilibrium_quantity
        IN  /\ demand_function(sim, p) = taxed_supply_function(sim, p)
            /\ q = MaxZero(demand_function(sim, p))
            /\ Leq(Zero, demand_function(sim, p)) <=> q = demand_function(sim, p)
            /\ call.op \in {"find_equilibrium", "tax_rate"} => call.ret = <<p, q>>

\* C1 witness: find_equilibrium has run on a market taxed out of existence
C1_ClampedSolved ==
    /\ JustSolved
    /\ call.op = "tax_rate"
    /\ sim.equilibrium_quantity = Zero
    /\ Less(demand_function(sim, sim.equilibrium_price), Zero)

\* C2 as stated: calculate_welfare, called on a freshly solved simulator,
\* leaves every field of the simulator as it was.
C2_WelfareLeavesSimulatorUntouched ==
    [][(call'.op = "calculate_welfare" /\ Solves(call'.prev_op)) => sim' = sim]_vars

\* C3: with tax_rate = 0 and valid elasticities, calculate_welfare called
\* after find_equilibrium returns consumer_surplus + producer_surplus =
\* total_welfare, tax_revenue = 0 and deadweight_loss = 0.
C3_ZeroTaxWelfare ==
    (WelfareAfterSolve /\ sim.tax_rate = Zero) =>
        /\ Add(call.ret[1], call.ret[2]) = call.ret[4]
        /\ call.ret[3] = Zero
        /\ call.ret[5] = Zero

\* C3 witness: such a call on elasticities other than the defaults
C3_ZeroTaxWelfareComputed ==
    /\ WelfareAfterSolve
    /\ sim.tax_rate = Zero
    /\ sim.demand_elasticity = Num(-1)
    /\ sim.supply_elasticity = Num(2)
    /\ Less(Zero, call.ret[4])

\* two recomputations in a row (tax_rate set, find_equilibrium,
\* calculate_welfare), hence under the same elasticities; the results are
\* <<tax_rate, quantity, deadweight_loss>>
TwoTaxRates ==
    /\ call.op = "recompute" /\ call.prev_op = "recompute"
    /\ ~call.raised /\ call.prev_ret # None

\* C4: for tax rates t1 <= t2 under the same valid elasticities, the quantity
\* at t2 is at most the quantity at t1 and the deadweight loss at t2 at least
\* the deadweight loss at t1, also across the point where the quantity is
\* clamped to 0.
C4_TaxMonotone ==
    TwoTaxRates =>
        LET a == call.prev_ret
            b == call.ret
        IN  /\ Leq(a[1], b[1]) => (Leq(b[2], a[2]) /\ Leq(a[3], b[3]))
            /\ Leq(b[1], a[1]) => (Leq(a[2], b[2]) /\ Leq(b[3], a[3]))

\* C4 witness: the tax raised from a rate with a positive quantity to a rate
\* with the quantity clamped, the deadweight loss growing
C4_TaxRaisedAcrossClamp ==
    /\ TwoTaxRates
    /\ Less(Zero, call.prev_ret[1])
    /\ Less(call.prev_ret[1], call.ret[1])
    /\ Less(Zero, call.prev_ret[2])
    /\ call.ret[2] = Zero
    /\ Less(demand_function(sim, Recompute(sim, sim.tax_rate).consumer_price), Zero)
    /\ Less(call.prev_ret[3], call.ret[3])

\* C5: after a reset, whatever the sliders held before, the session is at the
\* defaults (-3, 3, 0) and the equilibrium reported is price 10, quantity 100
\* with tax_revenue 0 and deadweight_loss 0.
C5_ResetRestoresDefaults ==
    event.name = "reset" =>
        /\ ~event.raised
        /\ sim.demand_elasticity = Num(-3)
        /\ sim.supply_elasticity = Num(3)
        /\ sim.tax_rate = Zero
        /\ tax_slider = Zero
        /\ demand_elasticity_slider = Num(-3)
        /\ supply_elasticity_slider = Num(3)
        /\ consumer_price = Num(10)
        /\ quantity = Num(100)
        /\ welfare_data[3] = Zero
        /\ welfare_data[5] = Zero
        /\ find_equilibrium(sim).ret = <<Num(10), Num(100)>>

\* C5 witness: a reset handled when all three sliders were off their defaults
C5_ResetAfterChanges ==
    /\ event.name = "reset"
    /\ event.prev_tax # Zero
    /\ event.prev_demand # Num(-3)
    /\ event.prev_supply # Num(3)

\* C6 as stated: a constructor call or an elasticity assignment followed by
\* update_curves with invalid elasticities is rejected and leaves the
\* simulator exactly as it was.
C6_InvalidElasticitiesRejected ==
    [][(call'.op \in {"MarketSimulator", "update_elasticity"} /\ ~call'.valid_args)
          => (call'.raised /\ sim' = sim)]_vars

\* C7 as stated: every tax or elasticity change handled without error
\* appends exactly one entry to the history.
C7_HistoryGrowsByOne ==
    [][(event'.name \in {"tax", "demand_elasticity", "supply_elasticity"}
            /\ ~event'.raised)
          => Len(sim'.history) = Len(sim.history) + 1]_vars

\* C8: whenever the elasticities are valid, both curves pass through the
\* anchor (demand_function(10) = 100 = supply_function(10)), so the
\* intercepts are never stale and the zero-tax equilibrium is (10, 100).
C8_CurvesThroughAnchor ==
    Valid(sim) =>
        /\ demand_function(sim, Num(10)) = Num(100)
        /\ supply_function(sim, Num(10)) = Num(100)
        /\ find_equilibrium([sim EXCEPT !.tax_rate = Zero]).ret = <<Num(10), Num(100)>>
        /\ (JustSolved /\ sim.tax_rate = Zero) =>
               /\ sim.equilibrium_price = Num(10)
               /\ sim.equilibrium_quantity = Num(100)

\* C8 witness: the elasticities changed, away from the defaults, under a tax
C8_ElasticitiesChanged ==
    /\ call.op = "update_elasticity"
    /\ ~call.raised
    /\ Valid(sim)
    /\ sim.demand_elasticity # Num(-3)
    /\ sim.supply_elasticity # Num(3)
    /\ sim.tax_rate # Zero

\* C9 as stated: find_equilibrium once and calculate_welfare twice in a row
\* give the same five figures both times.
C9_WelfareRepeatable ==
    (call.op = "calculate_welfare" /\ call.prev_op = "calculate_welfare"
        /\ call.prev_solved /\ ~call.raised)
      => call.ret = call.prev_ret

\* the closed-form market for elasticities d < 0 < s and tax t
ClosedFormPrice(d, s, t) == Add(Num(10), Div(Mul(s, t), Sub(s, d)))
ClosedFormQuantity(d, s, t) ==
    MaxZero(Add(Num(100), Div(Mul(Mul(d, s), t), Sub(s, d))))
\* its welfare while the quantity is positive: the surplus triangles, the
\* revenue rectangle, and the triangle t * (100 - Q) / 2 lost to the tax
ClosedFormWelfare(d, s, t) ==
    LET q == ClosedFormQuantity(d, s, t)
        cs == Div(Mul(q, q), Mul(Num(-2), d))
        ps == Div(Mul(q, q), Mul(Num(2), s))
        rev == Mul(t, q)
    IN  <<cs, ps, rev, Add(Add(cs, ps), rev),
          Mul(Half, Mul(t, Sub(Num(100), q)))>>

\* C10: when an event's callbacks have run, the simulator holds the three
\* slider values, the displayed price, quantity and welfare are the closed
\* form for them, and every calculate_welfare was entered with a solved
\* equilibrium.
C10_DisplayMatchesSliders ==
    /\ ~event.raised
    /\ event.on_solved
    /\ sim.tax_rate = tax_slider
    /\ sim.demand_elasticity = demand_elasticity_slider
    /\ sim.supply_elasticity = supply_elasticity_slider
    /\ consumer_price = ClosedFormPrice(demand_elasticity_slider,
                                        supply_elasticity_slider, tax_slider)
    /\ quantity = ClosedFormQuantity(demand_elasticity_slider,
                                     supply_elasticity_slider, tax_slider)
    /\ welfare_data = ClosedFormWelfare(demand_elasticity_slider,
                                        supply_elasticity_slider, tax_slider)

\* C10 witness: the supply slider moved while the other two were off their
\* defaults, and the display shows a taxed market
C10_SupplyMovedUnderTax ==
    /\ event.name = "supply_elasticity"
    /\ tax_slider # Zero
    /\ demand_elasticity_slider # Num(-3)
    /\ supply_elasticity_slider # Num(3)
    /\ Less(quantity, Num(100))
    /\ Less(Zero, welfare_data[5])

====
